---- MODULE Spec2Model ----
(***************************************************************************)
(* Pool state machine of the plp program (programs/plp/src/lib.rs).        *)
(*                                                                         *)
(* The ledger is a map from addresses to accounts.  Every instruction is   *)
(* one atomic step: the accounts struct of the instruction is validated,   *)
(* the handler runs on the in-memory copy of the pool account, and the     *)
(* copy is written back only when the handler returns Ok; on any error     *)
(* the ledger keeps its contents from before the instruction.              *)
(***************************************************************************)
EXTENDS Integers, FiniteSets, Sequences, TLC

(***************************************************************************)
(* Bounds.  U64_MAX stands for 2^64-1; the counters live in 0..U64_MAX.    *)
(* MAX_BUMP stands for the largest bump seed (255 on the ledger).          *)
(***************************************************************************)
U64_MAX == 1

MAX_BUMP == 1

\* Public keys that can sign or be named as authority.
Keys == {"k1", "k2"}

\* Vault account keys.
Vaults == {"v1", "v2"}

\* Mints (asset identifiers).
Mints == {"m1", "m2"}

U64 == 0..U64_MAX

Bumps == 0..MAX_BUMP

\* curve_type tags (u8) in use.
CurveTypes == {0, 1}

\* The account keys and arguments an init_pool call is made with: the
\* authority, the two vaults and InitPoolArgs.curve_type.
InitInputs ==
    {[authority |-> "k1", vault_sol |-> "v1", vault_token |-> "v2",
      curve_type |-> 0],
     [authority |-> "k2", vault_sol |-> "v2", vault_token |-> "v1",
      curve_type |-> 1]}

\* enum GraduationDex { Raydium = 0, Orca = 1, Jupiter = 2 }, default Raydium
GraduationDex == {"Raydium", "Orca", "Jupiter"}

GraduationDexDefault == "Raydium"

\* `dex as u8`
DexAsU8(dex) ==
    CASE dex = "Raydium" -> 0
      [] dex = "Orca"    -> 1
      [] dex = "Jupiter" -> 2

\* enum PlpError
PlpError == {"LiquidityLocked", "PoolGraduated", "Overflow",
             "InsufficientSol", "InsufficientTokens"}

\* Errors raised by the account constraints before a handler runs.
ConstraintError == {"AccountNotInitialized", "ConstraintSeeds",
                    "ConstraintHasOne", "AccountAlreadyInUse"}

\* struct Pool
Pool == [authority : Keys, mint : Mints, vault_sol : Vaults,
         vault_token : Vaults, curve_type : CurveTypes, locked : BOOLEAN,
         graduated : BOOLEAN, graduation_dex : 0..2, total_sol : U64,
         total_tokens : U64, bump : Bumps]

\* An address that holds no account data (owned by the system program).
Empty == [initialized |-> FALSE]

\* None of Option<u64>
None == -1

(***************************************************************************)
(* Address derivation, seeds = [b"pool", mint] plus a bump.  The hash is   *)
(* taken collision free, so a derived address is named by the pair it was  *)
(* derived from.  A pair whose hash lies on the curve derives no address;  *)
(* which pairs do is a fixed property of the hash.                         *)
(***************************************************************************)
OnCurve(mint, bump) ==
    \/ mint = "m1" /\ bump = MAX_BUMP
    \/ mint = "m2" /\ bump = 0

create_program_address(mint, bump) ==
    IF OnCurve(mint, bump) THEN Empty ELSE [mint |-> mint, bump |-> bump]

\* Highest bump that derives an address, searched from MAX_BUMP downwards.
RECURSIVE FindBump(_, _)
FindBump(mint, bump) ==
    IF ~OnCurve(mint, bump) \/ bump = 0 THEN bump
    ELSE FindBump(mint, bump - 1)

find_program_address(mint) ==
    LET b == FindBump(mint, MAX_BUMP)
    IN  [address |-> create_program_address(mint, b), bump |-> b]

\* Every address a caller can present as the pool account.
Addresses == {create_program_address(m, b) : m \in Mints, b \in Bumps} \ {Empty}

VARIABLES accounts, net, last

vars == <<accounts, net, last>>

\* Faulty variant: u64::wrapping_add in place of checked_add.
wrapping_add(a, b) == (a + b) % (U64_MAX + 1)

\* u64::checked_add
checked_add(a, b) == IF a + b > U64_MAX THEN None ELSE a + b

\* Faulty variant: a subtraction down to zero is refused.
checked_sub_refusing_zero(a, b) == IF b >= a THEN None ELSE a - b

\* Faulty variant: u64::saturating_sub in place of checked_sub.
saturating_sub(a, b) == IF b > a THEN 0 ELSE a - b

\* u64::checked_sub
checked_sub(a, b) == IF b > a THEN None ELSE a - b

(***************************************************************************)
(* Handlers.  Each takes the in-memory pool account and returns the error  *)
(* kind ("Ok" for success) with the in-memory account as the handler left  *)
(* it, assignments made before a failing `?` included.                     *)
(***************************************************************************)
\* Faulty variant: the two vault keys are stored in each other's field.
init_pool_swapping_vaults(authority, vault_sol, vault_token, mint, curve_type, bump) ==
    [err  |-> "Ok",
     pool |-> [authority      |-> authority,
               mint           |-> mint,
               vault_sol      |-> vault_token,
               vault_token    |-> vault_sol,
               curve_type     |-> curve_type,
               locked         |-> FALSE,
               graduated      |-> FALSE,
               graduation_dex |-> DexAsU8(GraduationDexDefault),
               total_sol      |-> 0,
               total_tokens   |-> 0,
               bump           |-> bump]]

init_pool(authority, vault_sol, vault_token, mint, curve_type, bump) ==
    [err  |-> "Ok",
     pool |-> [authority      |-> authority,
               mint           |-> mint,
               vault_sol      |-> vault_sol,
               vault_token    |-> vault_token,
               curve_type     |-> curve_type,
               locked         |-> FALSE,
               graduated      |-> FALSE,
               graduation_dex |-> DexAsU8(GraduationDexDefault),
               total_sol      |-> 0,
               total_tokens   |-> 0,
               bump           |-> bump]]

\* Faulty variant: the result of the token addition is not propagated with
\* `?`, so the handler returns Ok with only total_sol updated.
buy_dropping_token_overflow(pool, tokens, lamports) ==
    IF pool.locked THEN [err |-> "LiquidityLocked", pool |-> pool]
    ELSE IF pool.graduated THEN [err |-> "PoolGraduated", pool |-> pool]
    ELSE LET s == checked_add(pool.total_sol, lamports)
         IN  IF s = None THEN [err |-> "Overflow", pool |-> pool]
             ELSE LET p1 == [pool EXCEPT !.total_sol = s]
                      t  == checked_add(p1.total_tokens, tokens)
                  IN  IF t = None THEN [err |-> "Ok", pool |-> p1]
                      ELSE [err |-> "Ok",
                            pool |-> [p1 EXCEPT !.total_tokens = t]]

\* Faulty variant: the require! on pool.graduated is missing.
buy_without_graduated_check(pool, tokens, lamports) ==
    IF pool.locked THEN [err |-> "LiquidityLocked", pool |-> pool]
    ELSE LET s == checked_add(pool.total_sol, lamports)
         IN  IF s = None THEN [err |-> "Overflow", pool |-> pool]
             ELSE LET p1 == [pool EXCEPT !.total_sol = s]
                      t  == checked_add(p1.total_tokens, tokens)
                  IN  IF t = None THEN [err |-> "Overflow", pool |-> p1]
                      ELSE [err |-> "Ok",
                            pool |-> [p1 EXCEPT !.total_tokens = t]]

buy(pool, tokens, lamports) ==
    IF pool.locked THEN [err |-> "LiquidityLocked", pool |-> pool]
    ELSE IF pool.graduated THEN [err |-> "PoolGraduated", pool |-> pool]
    ELSE LET s == checked_add(pool.total_sol, lamports)
         IN  IF s = None THEN [err |-> "Overflow", pool |-> pool]
             ELSE LET p1 == [pool EXCEPT !.total_sol = s]
                      t  == checked_add(p1.total_tokens, tokens)
                  IN  IF t = None THEN [err |-> "Overflow", pool |-> p1]
                      ELSE [err |-> "Ok",
                            pool |-> [p1 EXCEPT !.total_tokens = t]]

\* Faulty variant: the two require! lines are in the other order.
sell_checking_graduated_first(pool, tokens, lamports) ==
    IF pool.graduated THEN [err |-> "PoolGraduated", pool |-> pool]
    ELSE IF pool.locked THEN [err |-> "LiquidityLocked", pool |-> pool]
    ELSE LET s == checked_sub(pool.total_sol, lamports)
         IN  IF s = None THEN [err |-> "InsufficientSol", pool |-> pool]
             ELSE LET p1 == [pool EXCEPT !.total_sol = s]
                      t  == checked_sub(p1.total_tokens, tokens)
                  IN  IF t = None
                      THEN [err |-> "InsufficientTokens", pool |-> p1]
                      ELSE [err |-> "Ok",
                            pool |-> [p1 EXCEPT !.total_tokens = t]]

\* Faulty variant: the require! on pool.locked is missing.
sell_without_locked_check(pool, tokens, lamports) ==
    IF pool.graduated THEN [err |-> "PoolGraduated", pool |-> pool]
    ELSE LET s == checked_sub(pool.total_sol, lamports)
         IN  IF s = None THEN [err |-> "InsufficientSol", pool |-> pool]
             ELSE LET p1 == [pool EXCEPT !.total_sol = s]
                      t  == checked_sub(p1.total_tokens, tokens)
                  IN  IF t = None
                      THEN [err |-> "InsufficientTokens", pool |-> p1]
                      ELSE [err |-> "Ok",
                            pool |-> [p1 EXCEPT !.total_tokens = t]]

sell(pool, tokens, lamports) ==
    IF pool.locked THEN [err |-> "LiquidityLocked", pool |-> pool]
    ELSE IF pool.graduated THEN [err |-> "PoolGraduated", pool |-> pool]
    ELSE LET s == checked_sub(pool.total_sol, lamports)
         IN  IF s = None THEN [err |-> "InsufficientSol", pool |-> pool]
             ELSE LET p1 == [pool EXCEPT !.total_sol = s]
                      t  == checked_sub(p1.total_tokens, tokens)
                  IN  IF t = None
                      THEN [err |-> "InsufficientTokens", pool |-> p1]
                      ELSE [err |-> "Ok",
                            pool |-> [p1 EXCEPT !.total_tokens = t]]

\* Faulty variant: a graduated pool can no longer be locked or unlocked.
lock_liquidity_refusing_graduated(pool, locked) ==
    IF pool.graduated THEN [err |-> "PoolGraduated", pool |-> pool]
    ELSE [err |-> "Ok", pool |-> [pool EXCEPT !.locked = locked]]

\* Faulty variant: the flag is written to graduated instead of locked.
lock_liquidity_writing_graduated(pool, locked) ==
    [err |-> "Ok", pool |-> [pool EXCEPT !.graduated = locked]]

lock_liquidity(pool, locked) ==
    [err |-> "Ok", pool |-> [pool EXCEPT !.locked = locked]]

\* Faulty variant: the venue is recorded but the flag is not set.
graduate_without_flag(pool, dex) ==
    [err  |-> "Ok",
     pool |-> [pool EXCEPT !.graduation_dex = DexAsU8(dex)]]

\* Faulty variant: a second graduate is refused.
graduate_once(pool, dex) ==
    IF pool.graduated THEN [err |-> "PoolGraduated", pool |-> pool]
    ELSE [err  |-> "Ok",
          pool |-> [pool EXCEPT !.graduated = TRUE,
                                !.graduation_dex = DexAsU8(dex)]]

\* Faulty variant: the venue byte is written to curve_type.
graduate_writing_curve_type(pool, dex) ==
    [err  |-> "Ok",
     pool |-> [pool EXCEPT !.graduated = TRUE,
                           !.curve_type = DexAsU8(dex)]]

\* Faulty variant: graduating also clears the counters.
graduate_clearing_totals(pool, dex) ==
    [err  |-> "Ok",
     pool |-> [pool EXCEPT !.graduated = TRUE,
                           !.graduation_dex = DexAsU8(dex),
                           !.total_sol = 0,
                           !.total_tokens = 0]]

graduate(pool, dex) ==
    [err  |-> "Ok",
     pool |-> [pool EXCEPT !.graduated = TRUE,
                           !.graduation_dex = DexAsU8(dex)]]

(***************************************************************************)
(* Account constraints.  Each returns the error of the first failing       *)
(* constraint, or "Ok".                                                    *)
(***************************************************************************)

\* Faulty variant: init_if_needed, an account in use is accepted.
InitPool_if_needed(accts, address, mint) ==
    IF address # find_program_address(mint).address THEN "ConstraintSeeds"
    ELSE "Ok"

\* InitPool: seeds = [b"pool", args.mint], bump; init
InitPool(accts, address, mint) ==
    IF address # find_program_address(mint).address THEN "ConstraintSeeds"
    ELSE IF accts[address] # Empty THEN "AccountAlreadyInUse"
    ELSE "Ok"

\* Faulty variant: has_one on the signer, only the authority may trade.
Trade_by_authority_only(accts, address, user) ==
    IF accts[address] = Empty THEN "AccountNotInitialized"
    ELSE IF address # create_program_address(accts[address].mint,
                                             accts[address].bump)
         THEN "ConstraintSeeds"
    ELSE IF accts[address].authority # user THEN "ConstraintHasOne"
    ELSE "Ok"

\* Faulty variant: the seeds constraint is missing.
Trade_without_seeds(accts, address, user) ==
    IF accts[address] = Empty THEN "AccountNotInitialized"
    ELSE "Ok"

\* Trade: Account<Pool>; seeds = [b"pool", pool.mint], bump = pool.bump
Trade(accts, address, user) ==
    IF accts[address] = Empty THEN "AccountNotInitialized"
    ELSE IF address # create_program_address(accts[address].mint,
                                             accts[address].bump)
         THEN "ConstraintSeeds"
    ELSE "Ok"

\* Faulty variant: has_one = authority is missing.
UpdateState_without_has_one(accts, address, authority) ==
    IF accts[address] = Empty THEN "AccountNotInitialized"
    ELSE IF address # create_program_address(accts[address].mint,
                                             accts[address].bump)
         THEN "ConstraintSeeds"
    ELSE "Ok"

\* UpdateState: as Trade, plus has_one = authority
UpdateState(accts, address, authority) ==
    IF accts[address] = Empty THEN "AccountNotInitialized"
    ELSE IF address # create_program_address(accts[address].mint,
                                             accts[address].bump)
         THEN "ConstraintSeeds"
    ELSE IF accts[address].authority # authority THEN "ConstraintHasOne"
    ELSE "Ok"

(***************************************************************************)
(* Instruction dispatch: the result of a handler is written back to the    *)
(* ledger only on Ok.                                                      *)
(***************************************************************************)
Exit(accts, address, r) ==
    IF r.err = "Ok" THEN [accts EXCEPT ![address] = r.pool] ELSE accts

Rejected(accts, e) == [err |-> e, accounts |-> accts]

Returned(accts, address, r) ==
    [err |-> r.err, accounts |-> Exit(accts, address, r)]

\* The five instructions as functions of the ledger and the inputs.
InitPoolCall(accts, address, authority, vault_sol, vault_token, mint, curve_type) ==
    LET check == InitPool(accts, address, mint)
    IN  IF check # "Ok" THEN Rejected(accts, check)
        ELSE Returned(accts, address,
                      init_pool(authority, vault_sol, vault_token, mint,
                                curve_type, find_program_address(mint).bump))

BuyCall(accts, address, user, tokens, lamports) ==
    LET check == Trade(accts, address, user)
    IN  IF check # "Ok" THEN Rejected(accts, check)
        ELSE Returned(accts, address, buy(accts[address], tokens, lamports))

SellCall(accts, address, user, tokens, lamports) ==
    LET check == Trade(accts, address, user)
    IN  IF check # "Ok" THEN Rejected(accts, check)
        ELSE Returned(accts, address, sell(accts[address], tokens, lamports))

LockLiquidityCall(accts, address, authority, locked) ==
    LET check == UpdateState(accts, address, authority)
    IN  IF check # "Ok" THEN Rejected(accts, check)
        ELSE Returned(accts, address, lock_liquidity(accts[address], locked))

GraduateCall(accts, address, authority, dex) ==
    LET check == UpdateState(accts, address, authority)
    IN  IF check # "Ok" THEN Rejected(accts, check)
        ELSE Returned(accts, address, graduate(accts[address], dex))

(***************************************************************************)
(* State machine.  accounts is the ledger; last is the instruction that    *)
(* ran last and its result; net is, per address, the exact integer sum of  *)
(* the deltas of the buys that returned Ok minus those of the sells that   *)
(* returned Ok.                                                            *)
(***************************************************************************)
Init ==
    /\ accounts = [a \in Addresses |-> Empty]
    /\ net = [a \in Addresses |-> [sol |-> 0, tokens |-> 0]]
    /\ last = [op |-> "none", err |-> "Ok"]

InitPoolIx ==
    \E address \in Addresses, mint \in Mints, inp \in InitInputs :
        LET r == InitPoolCall(accounts, address, inp.authority, inp.vault_sol,
                              inp.vault_token, mint, inp.curve_type)
        IN  /\ accounts' = r.accounts
            /\ last' = [op |-> "init_pool", err |-> r.err]
            /\ net' = IF r.err = "Ok"
                      THEN [net EXCEPT ![address] = [sol |-> 0, tokens |-> 0]]
                      ELSE net

BuyIx ==
    \E address \in Addresses, user \in Keys, tokens \in U64, lamports \in U64 :
        LET r == BuyCall(accounts, address, user, tokens, lamports)
        IN  /\ accounts' = r.accounts
            /\ last' = [op |-> "buy", err |-> r.err]
            /\ net' = IF r.err = "Ok"
                      THEN [net EXCEPT ![address] =
                               [sol    |-> @.sol + lamports,
                                tokens |-> @.tokens + tokens]]
                      ELSE net

SellIx ==
    \E address \in Addresses, user \in Keys, tokens \in U64, lamports \in U64 :
        LET r == SellCall(accounts, address, user, tokens, lamports)
        IN  /\ accounts' = r.accounts
            /\ last' = [op |-> "sell", err |-> r.err]
            /\ net' = IF r.err = "Ok"
                      THEN [net EXCEPT ![address] =
                               [sol    |-> @.sol - lamports,
                                tokens |-> @.tokens - tokens]]
                      ELSE net

LockLiquidityIx ==
    \E address \in Addresses, authority \in Keys, locked \in BOOLEAN :
        LET r == LockLiquidityCall(accounts, address, authority, locked)
        IN  /\ accounts' = r.accounts
            /\ last' = [op |-> "lock_liquidity", err |-> r.err]
            /\ UNCHANGED net

GraduateIx ==
    \E address \in Addresses, authority \in Keys, dex \in GraduationDex :
        LET r == GraduateCall(accounts, address, authority, dex)
        IN  /\ accounts' = r.accounts
            /\ last' = [op |-> "graduate", err |-> r.err]
            /\ UNCHANGED net

Next ==
    \/ InitPoolIx
    \/ BuyIx
    \/ SellIx
    \/ LockLiquidityIx
    \/ GraduateIx

Spec == Init /\ [][Next]_vars

(***************************************************************************)
(* Ledger for the address check: one address holds a pool record as        *)
(* init_pool writes it for a mint whose derived address is another one,    *)
(* the stale or forged reference the seeds constraint is there to refuse.  *)
(***************************************************************************)
InitRelocated ==
    /\ \E a \in Addresses, mint \in Mints, inp \in InitInputs :
          /\ a # find_program_address(mint).address
          /\ accounts =
                [x \in Addresses |->
                    IF x = a
                    THEN init_pool(inp.authority, inp.vault_sol,
                                   inp.vault_token, mint, inp.curve_type,
                                   find_program_address(mint).bump).pool
                    ELSE Empty]
    /\ net = [a \in Addresses |-> [sol |-> 0, tokens |-> 0]]
    /\ last = [op |-> "none", err |-> "Ok"]

SpecRelocated == InitRelocated /\ [][Next]_vars

TypeOK ==
    /\ accounts \in [Addresses -> Pool \cup {Empty}]
    /\ last.err \in PlpError \cup ConstraintError \cup {"Ok"}

(***************************************************************************)
(* Properties.                                                             *)
(***************************************************************************)
IsPool(a) == accounts[a] # Empty

\* C1: a buy or sell on a pool whose locked flag or graduated flag is true
\* fails, and the ledger after the failed call equals the ledger before it.
C1_TradeRejectedWhenLockedOrGraduated ==
    \A a \in Addresses :
        (IsPool(a) /\ (accounts[a].locked \/ accounts[a].graduated)) =>
            \A user \in Keys, tokens \in U64, lamports \in U64 :
                LET b == BuyCall(accounts, a, user, tokens, lamports)
                    s == SellCall(accounts, a, user, tokens, lamports)
                IN  /\ b.err # "Ok" /\ b.accounts = accounts
                    /\ s.err # "Ok" /\ s.accounts = accounts

\* A sell has just failed on a locked pool that holds a positive balance.
C1_Witness ==
    /\ last = [op |-> "sell", err |-> "LiquidityLocked"]
    /\ \A a \in Addresses :
          IsPool(a) /\ accounts[a].locked /\ ~accounts[a].graduated
          /\ accounts[a].total_sol > 0

\* C2: for every pool, total_sol and total_tokens equal the exact integer sum
\* of the deltas of the successful buys minus those of the successful sells,
\* and lie in 0..U64_MAX.
C2_TotalsAreExactSums ==
    \A a \in Addresses :
        IsPool(a) =>
            /\ accounts[a].total_sol = net[a].sol
            /\ accounts[a].total_tokens = net[a].tokens
            /\ accounts[a].total_sol \in 0..U64_MAX
            /\ accounts[a].total_tokens \in 0..U64_MAX

\* A sell has just succeeded and left a pool with a positive token total at
\* the top of the range and nothing of the value total.
C2_Witness ==
    /\ last = [op |-> "sell", err |-> "Ok"]
    /\ \E a \in Addresses :
          IsPool(a) /\ accounts[a].total_tokens = U64_MAX
          /\ accounts[a].total_sol = 0

\* C3: a buy on an unlocked, ungraduated pool in which either addition
\* exceeds U64_MAX fails, and both counters keep their values.
C3_BuyOverflowIsAtomic ==
    \A a \in Addresses :
        (IsPool(a) /\ ~accounts[a].locked /\ ~accounts[a].graduated) =>
            \A user \in Keys, tokens \in U64, lamports \in U64 :
                (\/ accounts[a].total_sol + lamports > U64_MAX
                 \/ accounts[a].total_tokens + tokens > U64_MAX) =>
                    LET b == BuyCall(accounts, a, user, tokens, lamports)
                    IN  /\ b.err # "Ok"
                        /\ b.accounts[a] # Empty
                        /\ b.accounts[a].total_sol = accounts[a].total_sol
                        /\ b.accounts[a].total_tokens =
                               accounts[a].total_tokens

\* A buy has just failed with Overflow on the only pool there is, whose value
\* total is 0: only the token addition can have overflowed.
C3_Witness ==
    /\ last = [op |-> "buy", err |-> "Overflow"]
    /\ \E a \in Addresses :
          /\ IsPool(a) /\ ~accounts[a].locked /\ ~accounts[a].graduated
          /\ accounts[a].total_sol = 0
          /\ accounts[a].total_tokens = U64_MAX
          /\ \A b \in Addresses \ {a} : ~IsPool(b)

\* C4: a sell on an unlocked, ungraduated pool in which a delta exceeds its
\* counter fails with InsufficientSol or InsufficientTokens, and both
\* counters keep their values.
C4_SellUnderflowIsAtomic ==
    \A a \in Addresses :
        (IsPool(a) /\ ~accounts[a].locked /\ ~accounts[a].graduated) =>
            \A user \in Keys, tokens \in U64, lamports \in U64 :
                (\/ lamports > accounts[a].total_sol
                 \/ tokens > accounts[a].total_tokens) =>
                    LET s == SellCall(accounts, a, user, tokens, lamports)
                    IN  /\ s.err \in {"InsufficientSol", "InsufficientTokens"}
                        /\ s.accounts[a] # Empty
                        /\ s.accounts[a].total_sol = accounts[a].total_sol
                        /\ s.accounts[a].total_tokens =
                               accounts[a].total_tokens

\* A sell has just failed with InsufficientTokens on the only pool there is,
\* which holds value but no tokens.
C4_Witness ==
    /\ last = [op |-> "sell", err |-> "InsufficientTokens"]
    /\ \E a \in Addresses :
          /\ IsPool(a) /\ ~accounts[a].locked /\ ~accounts[a].graduated
          /\ accounts[a].total_sol = U64_MAX
          /\ accounts[a].total_tokens = 0
          /\ \A b \in Addresses \ {a} : ~IsPool(b)

\* C5: a lock_liquidity or graduate call by a key other than the stored
\* authority fails with the has_one constraint error (the Unauthorized kind)
\* and leaves the ledger as it was.
C5_UpdateStateNeedsAuthority ==
    \A a \in Addresses, k \in Keys :
        (IsPool(a) /\ k # accounts[a].authority) =>
            /\ \A locked \in BOOLEAN :
                  LET r == LockLiquidityCall(accounts, a, k, locked)
                  IN  r.err = "ConstraintHasOne" /\ r.accounts = accounts
            /\ \A dex \in GraduationDex :
                  LET r == GraduateCall(accounts, a, k, dex)
                  IN  r.err = "ConstraintHasOne" /\ r.accounts = accounts

\* A graduate call has just been refused on the only pool there is, which is
\* still ungraduated and unlocked.
C5_Witness ==
    /\ last = [op |-> "graduate", err |-> "ConstraintHasOne"]
    /\ \E a \in Addresses :
          /\ IsPool(a) /\ ~accounts[a].graduated /\ ~accounts[a].locked
          /\ \A b \in Addresses \ {a} : ~IsPool(b)

\* C6: a pool whose graduated flag is true has it true after every step.
C6_GraduationIsOneWay ==
    [][\A a \in Addresses :
          (IsPool(a) /\ accounts[a].graduated) =>
              (accounts'[a] # Empty /\ accounts'[a].graduated)]_vars

\* Every address holds a graduated pool and an init_pool on one of them has
\* just been refused.
C6_Witness ==
    /\ last = [op |-> "init_pool", err |-> "AccountAlreadyInUse"]
    /\ \A a \in Addresses : IsPool(a) /\ accounts[a].graduated

\* C7: on a graduated pool every buy and every sell fails, and every step
\* leaves the pool graduated with total_sol and total_tokens as they were,
\* whatever the locked flag is.
C7_GraduatedPoolIsFrozen ==
    /\ [](\A a \in Addresses :
            (IsPool(a) /\ accounts[a].graduated) =>
                \A user \in Keys, tokens \in U64, lamports \in U64 :
                    /\ BuyCall(accounts, a, user, tokens, lamports).err # "Ok"
                    /\ SellCall(accounts, a, user, tokens, lamports).err
                           # "Ok")
    /\ [][\A a \in Addresses :
            (IsPool(a) /\ accounts[a].graduated) =>
                /\ accounts'[a] # Empty
                /\ accounts'[a].graduated
                /\ accounts'[a].total_sol = accounts[a].total_sol
                /\ accounts'[a].total_tokens = accounts[a].total_tokens]_vars

\* The authority has just unlocked the only pool there is, which is graduated
\* and holds a positive balance.
C7_Witness ==
    /\ last = [op |-> "lock_liquidity", err |-> "Ok"]
    /\ \E a \in Addresses :
          /\ IsPool(a) /\ accounts[a].graduated /\ ~accounts[a].locked
          /\ accounts[a].total_sol > 0 /\ accounts[a].total_tokens > 0
          /\ \A b \in Addresses \ {a} : ~IsPool(b)

\* C8: an init_pool for a mint that already has a pool fails, whatever
\* address and inputs it is called with, and leaves the ledger as it was.
C8_InitIsExactlyOnce ==
    \A mint \in Mints :
        (\E b \in Addresses : IsPool(b) /\ accounts[b].mint = mint) =>
            \A a \in Addresses, inp \in InitInputs :
                LET r == InitPoolCall(accounts, a, inp.authority,
                                      inp.vault_sol, inp.vault_token, mint,
                                      inp.curve_type)
                IN  r.err # "Ok" /\ r.accounts = accounts

\* An init_pool has just been refused because the address is in use, while
\* the only pool there is is locked, graduated to Jupiter and holds a balance.
C8_Witness ==
    /\ last = [op |-> "init_pool", err |-> "AccountAlreadyInUse"]
    /\ \E a \in Addresses :
          /\ IsPool(a) /\ accounts[a].locked /\ accounts[a].graduated
          /\ accounts[a].graduation_dex = 2
          /\ accounts[a].total_sol > 0
          /\ \A b \in Addresses \ {a} : ~IsPool(b)

\* C9: a step of buy, sell, lock_liquidity or graduate, successful or not,
\* leaves authority, mint, vault_sol, vault_token, curve_type and bump of
\* every pool as they were.
C9_ImmutableFields ==
    [][last'.op # "init_pool" =>
          \A a \in Addresses :
              IsPool(a) =>
                  /\ accounts'[a] # Empty
                  /\ accounts'[a].authority = accounts[a].authority
                  /\ accounts'[a].mint = accounts[a].mint
                  /\ accounts'[a].vault_sol = accounts[a].vault_sol
                  /\ accounts'[a].vault_token = accounts[a].vault_token
                  /\ accounts'[a].curve_type = accounts[a].curve_type
                  /\ accounts'[a].bump = accounts[a].bump]_vars

\* A graduate to Orca has just succeeded on a pool created with curve type 0.
C9_Witness ==
    /\ last = [op |-> "graduate", err |-> "Ok"]
    /\ \E a \in Addresses :
          /\ IsPool(a) /\ accounts[a].graduated
          /\ accounts[a].graduation_dex = 1
          /\ accounts[a].curve_type = 0
          /\ \A b \in Addresses \ {a} : ~IsPool(b)

\* C10: a step of lock_liquidity or graduate leaves total_sol and
\* total_tokens of every pool as they were, a step of buy or sell leaves
\* locked, graduated and graduation_dex as they were, and a counter of a pool
\* changes only in a step of a buy or sell that returned Ok.
C10_Frames ==
    [][\A a \in Addresses :
          (IsPool(a) /\ accounts'[a] # Empty) =>
              /\ last'.op \in {"lock_liquidity", "graduate"} =>
                    /\ accounts'[a].total_sol = accounts[a].total_sol
                    /\ accounts'[a].total_tokens = accounts[a].total_tokens
              /\ last'.op \in {"buy", "sell"} =>
                    /\ accounts'[a].locked = accounts[a].locked
                    /\ accounts'[a].graduated = accounts[a].graduated
                    /\ accounts'[a].graduation_dex =
                           accounts[a].graduation_dex
              /\ (\/ accounts'[a].total_sol # accounts[a].total_sol
                  \/ accounts'[a].total_tokens # accounts[a].total_tokens) =>
                    (last'.op \in {"buy", "sell"} /\ last'.err = "Ok")]_vars

\* A buy has just succeeded on an unlocked, ungraduated pool and both of its
\* counters stand at U64_MAX.
C10_Witness ==
    /\ last = [op |-> "buy", err |-> "Ok"]
    /\ \E a \in Addresses :
          /\ IsPool(a) /\ ~accounts[a].locked /\ ~accounts[a].graduated
          /\ accounts[a].total_sol = U64_MAX
          /\ accounts[a].total_tokens = U64_MAX

\* C11: an init_pool that returns Ok leaves at the presented address a record
\* with locked = false, graduated = false, both totals 0, with authority,
\* mint, curve_type and the two vaults as supplied, and with bump the byte
\* found by the address derivation for the mint.
C11_InitRecord ==
    \A a \in Addresses, mint \in Mints, inp \in InitInputs :
        LET r == InitPoolCall(accounts, a, inp.authority, inp.vault_sol,
                              inp.vault_token, mint, inp.curve_type)
        IN  r.err = "Ok" =>
                /\ r.accounts[a] # Empty
                /\ ~r.accounts[a].locked
                /\ ~r.accounts[a].graduated
                /\ r.accounts[a].total_sol = 0
                /\ r.accounts[a].total_tokens = 0
                /\ r.accounts[a].authority = inp.authority
                /\ r.accounts[a].mint = mint
                /\ r.accounts[a].curve_type = inp.curve_type
                /\ r.accounts[a].vault_sol = inp.vault_sol
                /\ r.accounts[a].vault_token = inp.vault_token
                /\ r.accounts[a].bump = find_program_address(mint).bump
                /\ a = find_program_address(mint).address

\* An init_pool has just returned Ok and every address holds a pool that is
\* as init_pool leaves it; the two were created with different authorities.
C11_Witness ==
    /\ last = [op |-> "init_pool", err |-> "Ok"]
    /\ \A a \in Addresses :
          /\ IsPool(a) /\ ~accounts[a].locked /\ ~accounts[a].graduated
          /\ accounts[a].total_sol = 0 /\ accounts[a].total_tokens = 0
    /\ \E a \in Addresses, b \in Addresses :
          accounts[a].authority # accounts[b].authority

\* C12 (as claimed): a buy whose value addition overflows and a buy in
\* which only the token addition overflows fail with two different error
\* kinds.
C12_DistinctOverflowErrors ==
    \A a \in Addresses :
        (IsPool(a) /\ ~accounts[a].locked /\ ~accounts[a].graduated) =>
            \A user \in Keys, t1 \in U64, l1 \in U64, t2 \in U64, l2 \in U64 :
                (/\ accounts[a].total_sol + l1 > U64_MAX
                 /\ accounts[a].total_sol + l2 <= U64_MAX
                 /\ accounts[a].total_tokens + t2 > U64_MAX) =>
                    BuyCall(accounts, a, user, t1, l1).err #
                        BuyCall(accounts, a, user, t2, l2).err

\* C13: a buy, sell, lock_liquidity or graduate presented with an address
\* that differs from the one derived from the stored mint and stored bump is
\* rejected by the seeds constraint and changes nothing; a call that returns
\* Ok was presented with the canonical address of the mint of its pool and
\* changes no other address.
C13_AddressIsRederived ==
    \A a \in Addresses :
        IsPool(a) =>
            \A k \in Keys, tokens \in U64, lamports \in U64,
               locked \in BOOLEAN, dex \in GraduationDex :
                \A r \in {BuyCall(accounts, a, k, tokens, lamports),
                          SellCall(accounts, a, k, tokens, lamports),
                          LockLiquidityCall(accounts, a, k, locked),
                          GraduateCall(accounts, a, k, dex)} :
                    /\ a # create_program_address(accounts[a].mint,
                                                  accounts[a].bump) =>
                          (r.err = "ConstraintSeeds" /\ r.accounts = accounts)
                    /\ r.err = "Ok" =>
                          /\ a = find_program_address(accounts[a].mint).address
                          /\ \A b \in Addresses \ {a} :
                                r.accounts[b] = accounts[b]

\* A sell has just been refused by the seeds constraint, and an address holds
\* a record whose mint and bump derive another address.
C13_Witness ==
    /\ last = [op |-> "sell", err |-> "ConstraintSeeds"]
    /\ \E a \in Addresses :
          /\ IsPool(a)
          /\ a # create_program_address(accounts[a].mint, accounts[a].bump)

\* C14: for every pool, deltas and pair of signers, buy gives the same error
\* kind and the same ledger whichever of the two signs, and so does sell.
C14_TradeIgnoresCaller ==
    \A a \in Addresses, tokens \in U64, lamports \in U64 :
        \A u1 \in Keys, u2 \in Keys :
            /\ BuyCall(accounts, a, u1, tokens, lamports) =
                   BuyCall(accounts, a, u2, tokens, lamports)
            /\ SellCall(accounts, a, u1, tokens, lamports) =
                   SellCall(accounts, a, u2, tokens, lamports)

\* A sell has just succeeded while the two pools, owned by different
\* authorities, both hold value.
C14_Witness ==
    /\ last = [op |-> "sell", err |-> "Ok"]
    /\ \A a \in Addresses : IsPool(a) /\ accounts[a].total_sol > 0
    /\ \E a \in Addresses, b \in Addresses :
          accounts[a].authority # accounts[b].authority

\* C15: lock_liquidity(flag) signed by the stored authority returns Ok and
\* changes the ledger in exactly one place, locked of the pool, which becomes
\* flag, whatever locked and graduated were; the same call made again
\* returns Ok and leaves the ledger as the first call left it.
C15_LockLiquidity ==
    \A a \in Addresses, flag \in BOOLEAN :
        IsPool(a) =>
            LET r == LockLiquidityCall(accounts, a, accounts[a].authority,
                                       flag)
            IN  /\ r.err = "Ok"
                /\ r.accounts = [accounts EXCEPT ![a].locked = flag]
                /\ LockLiquidityCall(r.accounts, a, accounts[a].authority,
                                     flag) = r

\* A lock_liquidity has just succeeded on the only pool there is, which is
\* graduated and locked.
C15_Witness ==
    /\ last = [op |-> "lock_liquidity", err |-> "Ok"]
    /\ \E a \in Addresses :
          /\ IsPool(a) /\ accounts[a].graduated /\ accounts[a].locked
          /\ \A b \in Addresses \ {a} : ~IsPool(b)

\* C16: graduate(dex) signed by the stored authority returns Ok on every
\* pool, graduated or locked or not, and leaves graduated = true and
\* graduation_dex = dex as u8, replacing the venue recorded before.
C16_Graduate ==
    \A a \in Addresses, dex \in GraduationDex :
        IsPool(a) =>
            LET r == GraduateCall(accounts, a, accounts[a].authority, dex)
            IN  /\ r.err = "Ok"
                /\ r.accounts =
                      [accounts EXCEPT ![a].graduated = TRUE,
                                       ![a].graduation_dex = DexAsU8(dex)]

\* A graduate has just succeeded on the only pool there is, which is locked
\* and records Jupiter.
C16_Witness ==
    /\ last = [op |-> "graduate", err |-> "Ok"]
    /\ \E a \in Addresses :
          /\ IsPool(a) /\ accounts[a].graduated /\ accounts[a].locked
          /\ accounts[a].graduation_dex = 2
          /\ \A b \in Addresses \ {a} : ~IsPool(b)

\* C17 (as claimed): after an init_pool that returned Ok, some pool holds in
\* graduation_dex a value that no graduate call can record.
C17_DefaultIsNoVenue ==
    (last = [op |-> "init_pool", err |-> "Ok"]) =>
        \E a \in Addresses :
            /\ IsPool(a)
            /\ \A dex \in GraduationDex :
                  accounts[a].graduation_dex # DexAsU8(dex)

\* C18: buy and sell report the first failing check in the order locked,
\* graduated, value counter, token counter: LiquidityLocked on a locked pool
\* whatever graduated and the deltas are, PoolGraduated on an unlocked
\* graduated pool whatever the deltas are, and on an open pool the error of
\* the value counter whenever the value delta does not fit, also when the
\* token delta does not fit either.
C18_FirstFailingCheck ==
    \A a \in Addresses :
        IsPool(a) =>
            \A user \in Keys, tokens \in U64, lamports \in U64 :
                LET b == BuyCall(accounts, a, user, tokens, lamports).err
                    s == SellCall(accounts, a, user, tokens, lamports).err
                    p == accounts[a]
                IN  /\ p.locked => (b = "LiquidityLocked"
                                    /\ s = "LiquidityLocked")
                    /\ (~p.locked /\ p.graduated) =>
                          (b = "PoolGraduated" /\ s = "PoolGraduated")
                    /\ (~p.locked /\ ~p.graduated) =>
                          /\ lamports > p.total_sol => s = "InsufficientSol"
                          /\ (lamports <= p.total_sol
                              /\ tokens > p.total_tokens) =>
                                s = "InsufficientTokens"
                          /\ (\/ p.total_sol + lamports > U64_MAX
                              \/ p.total_tokens + tokens > U64_MAX) =>
                                b = "Overflow"

\* A sell has just failed with LiquidityLocked while every pool is both
\* locked and graduated and holds nothing.
C18_Witness ==
    /\ last = [op |-> "sell", err |-> "LiquidityLocked"]
    /\ \A a \in Addresses :
          /\ IsPool(a) /\ accounts[a].locked /\ accounts[a].graduated
          /\ accounts[a].total_sol = 0 /\ accounts[a].total_tokens = 0

\* C19: a pool whose graduated flag is false holds 0 in graduation_dex.
C19_VenueOnlyWhenGraduated ==
    \A a \in Addresses :
        (IsPool(a) /\ ~accounts[a].graduated) =>
            accounts[a].graduation_dex = 0

\* A graduate has just succeeded: one pool is graduated with a venue other
\* than 0 and the other pool is not graduated.
C19_Witness ==
    /\ last = [op |-> "graduate", err |-> "Ok"]
    /\ \E a \in Addresses, b \in Addresses :
          /\ IsPool(a) /\ accounts[a].graduated
          /\ accounts[a].graduation_dex # 0
          /\ IsPool(b) /\ ~accounts[b].graduated

\* C20: on an unlocked, ungraduated pool, whenever buy(tokens, lamports)
\* returns Ok, sell(tokens, lamports) on the ledger the buy left returns Ok
\* and leaves total_sol and total_tokens as they were before the buy.
C20_BuySellRoundTrip ==
    \A a \in Addresses :
        (IsPool(a) /\ ~accounts[a].locked /\ ~accounts[a].graduated) =>
            \A user \in Keys, tokens \in U64, lamports \in U64 :
                LET b == BuyCall(accounts, a, user, tokens, lamports)
                IN  b.err = "Ok" =>
                        LET s == SellCall(b.accounts, a, user, tokens,
                                          lamports)
                        IN  /\ s.err = "Ok"
                            /\ s.accounts[a].total_sol =
                                   accounts[a].total_sol
                            /\ s.accounts[a].total_tokens =
                                   accounts[a].total_tokens

\* A sell has just succeeded and emptied the only pool there is, open and
\* ungraduated.
C20_Witness ==
    /\ last = [op |-> "sell", err |-> "Ok"]
    /\ \E a \in Addresses :
          /\ IsPool(a) /\ ~accounts[a].locked /\ ~accounts[a].graduated
          /\ accounts[a].total_sol = 0 /\ accounts[a].total_tokens = 0
          /\ \A b \in Addresses \ {a} : ~IsPool(b)

====
